---------------------------- MODULE Spec2Model ----------------------------
(***************************************************************************)
(* Model of the per-pixel aerosol retrieval of LaSRC                       *)
(* (lasrc/c_version/src/subaeroret.c): subaeroret_new and the legacy       *)
(* subaeroret.                                                             *)
(*                                                                         *)
(* Floating-point numbers are modelled as decimal floating-point numbers   *)
(* with Digits significant digits, together with the IEEE special values   *)
(* NaN, +Inf and -Inf.  Every arithmetic operation rounds its result to    *)
(* Digits significant digits.                                              *)
(***************************************************************************)
EXTENDS Integers, Sequences, FiniteSets, TLC

(***************************************************************************)
(* Bounds of the model                                                     *)
(***************************************************************************)
\* significant decimal digits kept by the modelled floating-point numbers
Digits == 3

(***************************************************************************)
(* Decimal floating point.  A number is [k |-> "num", m |-> mantissa,      *)
(* e |-> exponent] with value m * 10^e, m = 0 (and e = 0) or               *)
(* 10^(Digits-1) <= |m| < 10^Digits.  NaN is [k |-> "nan"], the infinities *)
(* are [k |-> "inf"] with m = 1 or m = -1.                                 *)
(***************************************************************************)
RECURSIVE Pow10(_)
Pow10(n) == IF n <= 0 THEN 1 ELSE 10 * Pow10(n - 1)

Abs(x) == IF x < 0 THEN -x ELSE x

Sgn(x) == IF x < 0 THEN -1 ELSE IF x > 0 THEN 1 ELSE 0

NaN == [k |-> "nan", m |-> 0, e |-> 0]

PInf == [k |-> "inf", m |-> 1, e |-> 0]

NInf == [k |-> "inf", m |-> -1, e |-> 0]

Zero == [k |-> "num", m |-> 0, e |-> 0]

IsNaN(a) == a.k = "nan"

IsInf(a) == a.k = "inf"

IsFinite(a) == a.k = "num"

\* m * 10^e rounded (half away from zero) to Digits significant digits
RECURSIVE Norm(_, _)
Norm(m, e) ==
    IF m = 0 THEN Zero
    ELSE IF Abs(m) >= Pow10(Digits)
         THEN Norm(Sgn(m) * ((Abs(m) + 5) \div 10), e + 1)
    ELSE IF Abs(m) < Pow10(Digits - 1)
         THEN Norm(m * 10, e - 1)
    ELSE [k |-> "num", m |-> m, e |-> e]

\* the literal m * 10^e of the source text
Lit(m, e) == Norm(m, e)

\* conversion of an int to floating point
FromInt(n) == Norm(n, 0)

FNeg(a) ==
    IF IsNaN(a) THEN NaN
    ELSE IF IsInf(a) THEN [a EXCEPT !.m = -a.m]
    ELSE [a EXCEPT !.m = -a.m]

FAdd(a, b) ==
    IF IsNaN(a) \/ IsNaN(b) THEN NaN
    ELSE IF IsInf(a) /\ IsInf(b) THEN (IF a.m = b.m THEN a ELSE NaN)
    ELSE IF IsInf(a) THEN a
    ELSE IF IsInf(b) THEN b
    ELSE IF a.m = 0 THEN b
    ELSE IF b.m = 0 THEN a
    ELSE IF a.e - b.e > Digits + 1 THEN a
    ELSE IF b.e - a.e > Digits + 1 THEN b
    ELSE IF a.e >= b.e
         THEN Norm(a.m * Pow10(a.e - b.e) + b.m, b.e)
         ELSE Norm(b.m * Pow10(b.e - a.e) + a.m, a.e)

FSub(a, b) == FAdd(a, FNeg(b))

FMul(a, b) ==
    IF IsNaN(a) \/ IsNaN(b) THEN NaN
    ELSE IF IsInf(a) \/ IsInf(b)
         THEN (IF a.m = 0 \/ b.m = 0 THEN NaN
               ELSE IF Sgn(a.m) = Sgn(b.m) THEN PInf ELSE NInf)
    ELSE Norm(a.m * b.m, a.e + b.e)

FDiv(a, b) ==
    IF IsNaN(a) \/ IsNaN(b) THEN NaN
    ELSE IF IsInf(a) THEN (IF IsInf(b) THEN NaN
                           ELSE IF Sgn(a.m) * (IF b.m < 0 THEN -1 ELSE 1) > 0
                                THEN PInf ELSE NInf)
    ELSE IF IsInf(b) THEN Zero
    ELSE IF b.m = 0 THEN (IF a.m = 0 THEN NaN
                          ELSE IF a.m > 0 THEN PInf ELSE NInf)
    ELSE Norm(Sgn(a.m) * Sgn(b.m) * ((Abs(a.m) * Pow10(Digits)) \div Abs(b.m)),
              a.e - b.e - Digits)

\* largest r in lo..hi with r * r <= n  (lo * lo <= n < (hi+1) * (hi+1))
RECURSIVE ISqrtIn(_, _, _)
ISqrtIn(n, lo, hi) ==
    IF lo >= hi THEN lo
    ELSE LET mid == (lo + hi + 1) \div 2
         IN  IF mid * mid <= n THEN ISqrtIn(n, mid, hi)
             ELSE ISqrtIn(n, lo, mid - 1)

FSqrt(a) ==
    IF IsNaN(a) THEN NaN
    ELSE IF IsInf(a) THEN (IF a.m > 0 THEN PInf ELSE NaN)
    ELSE IF a.m < 0 THEN NaN
    ELSE IF a.m = 0 THEN Zero
    ELSE LET s == IF (a.e - Digits) % 2 = 0 THEN Digits ELSE Digits - 1
             n == a.m * Pow10(s)
         IN  Norm(ISqrtIn(n, 0, Pow10(Digits)), (a.e - s) \div 2)

\* a < b as the C comparison: false when either side is NaN
FLt(a, b) ==
    IF IsNaN(a) \/ IsNaN(b) THEN FALSE
    ELSE IF IsInf(a) THEN a.m < 0 /\ ~(IsInf(b) /\ b.m < 0)
    ELSE IF IsInf(b) THEN b.m > 0
    ELSE IF Sgn(a.m) # Sgn(b.m) THEN Sgn(a.m) < Sgn(b.m)
    ELSE IF a.m = 0 THEN FALSE
    ELSE IF a.e # b.e THEN (IF a.m > 0 THEN a.e < b.e ELSE a.e > b.e)
    ELSE a.m < b.m

FGt(a, b) == FLt(b, a)

FLe(a, b) == ~IsNaN(a) /\ ~IsNaN(b) /\ ~FLt(b, a)

(***************************************************************************)
(* Satellite / band configuration                                          *)
(***************************************************************************)
NAOT_VALS == 22

DNL_BAND1 == 0

DNL_BAND7 == 6

DNS_BAND1 == 0

DNS_BAND12 == 10

Sats == {"SAT_LANDSAT_8", "SAT_LANDSAT_9", "SAT_SENTINEL_2"}

\* a C array initialiser as a function on 0 .. Len-1
Arr(s) == [i \in 0 .. Len(s) - 1 |-> s[i + 1]]

landsat_tth ==
    Arr(<<Lit(1, -3), Lit(1, -3), Zero, Lit(1, -3), Zero, Zero, Lit(1, -4),
          Zero>>)

landsat_tth_water ==
    Arr(<<Lit(1, -3), Lit(1, -3), Zero, Lit(1, -3), Lit(1, -3), Zero,
          Lit(1, -4), Zero>>)

sentinel_tth ==
    Arr(<<Lit(1, -3), Lit(1, -3), Zero, Lit(1, -3), Zero, Zero, Zero, Zero,
          Zero, Zero, Lit(1, -4)>>)

sentinel_tth_water ==
    Arr(<<Lit(1, -3), Zero, Zero, Lit(1, -3), Zero, Zero, Zero, Zero,
          Lit(1, -3), Zero, Lit(1, -4)>>)

aot550nm ==
    Arr(<<Lit(1, -2), Lit(5, -2), Lit(1, -1), Lit(15, -2), Lit(2, -1),
          Lit(3, -1), Lit(4, -1), Lit(6, -1), Lit(8, -1), Lit(1, 0),
          Lit(12, -1), Lit(14, -1), Lit(16, -1), Lit(18, -1), Lit(2, 0),
          Lit(23, -1), Lit(26, -1), Lit(3, 0), Lit(35, -1), Lit(4, 0),
          Lit(45, -1), Lit(5, 0)>>)

IsLandsat(sat) == sat = "SAT_LANDSAT_8" \/ sat = "SAT_LANDSAT_9"

\* (variant: the land table whatever water is)
TthOfLand(sat, water) ==
    IF IsLandsat(sat) THEN landsat_tth ELSE sentinel_tth

\* tth selected for (sat, water)
TthOf(sat, water) ==
    IF IsLandsat(sat)
    THEN (IF water THEN landsat_tth_water ELSE landsat_tth)
    ELSE (IF water THEN sentinel_tth_water ELSE sentinel_tth)

start_band(sat) == IF IsLandsat(sat) THEN DNL_BAND1 ELSE DNS_BAND1

end_band(sat) == IF IsLandsat(sat) THEN DNL_BAND7 ELSE DNS_BAND12

(***************************************************************************)
(* The kernel (atmcorlamb2_new / atmcorlamb2) is a deterministic function  *)
(* of the pixel, the band and the AOT.  Its values are not computed here:  *)
(* a value is chosen when the kernel is first evaluated for a pixel at an  *)
(* AOT and remembered in kern, so that a later evaluation with the same    *)
(* arguments returns the same value.  Fail is the non-SUCCESS status of    *)
(* the legacy kernel.                                                      *)
(***************************************************************************)
Fail == [k |-> "fail", m |-> 0, e |-> 0]

SUCCESS == "SUCCESS"

ERROR == "ERROR"

\* bands for which a retrieval on pixel px calls the kernel
Needed(px) ==
    {px.iband1} \cup
    {b \in start_band(px.sat) .. end_band(px.sat) : FLt(Zero, px.erelc[b])}

\* accumulator of one residual evaluation
\* (calls: kernel calls made; after: those made after a call had failed)
Acc0 == [sum |-> Zero, nbval |-> 0, testth |-> FALSE, ros1 |-> Lit(1, 0),
         calls |-> 0, after |-> 0, ok |-> TRUE]

\* (variant: the return value of the kernel is not looked at)
StoppedNever(acc) == FALSE

\* if (retval != SUCCESS) return (ERROR): no further band is processed
Stopped(acc) == ~acc.ok

\* the bookkeeping of one kernel call that returned roslamb
Called(acc, roslamb) ==
    [acc EXCEPT !.calls = @ + 1,
                !.after = IF acc.ok THEN @ ELSE @ + 1,
                !.ok = @ /\ roslamb # Fail]

\* the kernel call for the driver band iband1, the testth test and ros1
DriverBand(px, kv) ==
    LET roslamb == kv[px.iband1]
    IN  IF roslamb = Fail
        THEN Called(Acc0, roslamb)
        ELSE [Called(Acc0, roslamb) EXCEPT
                !.testth = FLt(FSub(roslamb, TthOf(px.sat, px.water)[px.iband1]),
                               Zero),
                !.ros1 = roslamb]

\* for (ib = start_band; ib <= end_band; ib++) of the water branch
RECURSIVE WaterBands(_, _, _, _)
WaterBands(px, kv, ib, acc) ==
    IF ib > end_band(px.sat) \/ Stopped(acc) THEN acc
    ELSE IF FLt(Zero, px.erelc[ib])
    THEN LET roslamb == kv[ib]
         IN  IF roslamb = Fail \/ ~acc.ok
             THEN WaterBands(px, kv, ib + 1, Called(acc, roslamb))
             ELSE WaterBands(px, kv, ib + 1,
                    [Called(acc, roslamb) EXCEPT
                       !.testth = @ \/ FLt(FSub(roslamb,
                                     TthOf(px.sat, px.water)[ib]), Zero),
                       !.sum = FAdd(@, FMul(roslamb, roslamb)),
                       !.nbval = @ + 1])
    ELSE WaterBands(px, kv, ib + 1, acc)

\* (variant: the land branch does not leave out iband1)
RECURSIVE LandBandsAll(_, _, _, _)
LandBandsAll(px, kv, ib, acc) ==
    IF ib > end_band(px.sat) \/ ~acc.ok THEN acc
    ELSE IF FLt(Zero, px.erelc[ib])
    THEN LET roslamb == kv[ib]
             point_error == FSub(roslamb, FMul(px.erelc[ib], acc.ros1))
         IN  LandBandsAll(px, kv, ib + 1,
                [acc EXCEPT
                   !.calls = @ + 1,
                   !.testth = @ \/ FLt(FSub(roslamb,
                                 TthOf(px.sat, px.water)[ib]), Zero),
                   !.sum = FAdd(@, FMul(point_error, point_error)),
                   !.nbval = @ + 1])
    ELSE LandBandsAll(px, kv, ib + 1, acc)

\* for (ib = start_band; ib <= end_band; ib++) of the land branch
RECURSIVE LandBands(_, _, _, _)
LandBands(px, kv, ib, acc) ==
    IF ib > end_band(px.sat) \/ Stopped(acc) THEN acc
    ELSE IF ib # px.iband1 /\ FLt(Zero, px.erelc[ib])
    THEN LET roslamb == kv[ib]
             point_error == FSub(roslamb, FMul(px.erelc[ib], acc.ros1))
         IN  IF roslamb = Fail \/ ~acc.ok
             THEN LandBands(px, kv, ib + 1, Called(acc, roslamb))
             ELSE LandBands(px, kv, ib + 1,
                    [Called(acc, roslamb) EXCEPT
                       !.testth = @ \/ FLt(FSub(roslamb,
                                     TthOf(px.sat, px.water)[ib]), Zero),
                       !.sum = FAdd(@, FMul(point_error, point_error)),
                       !.nbval = @ + 1])
    ELSE LandBands(px, kv, ib + 1, acc)

\* sqrt (sum) / nbval
Rms(acc) == FDiv(FSqrt(acc.sum), FromInt(acc.nbval))

\* one evaluation of the residual by the advance code (initial evaluation and
\* loop body): the accumulator after the band loop
EvalAdvance(px, kv) ==
    LET a == DriverBand(px, kv)
    IN  IF Stopped(a) THEN a
        ELSE IF px.water THEN WaterBands(px, kv, start_band(px.sat), a)
        ELSE LandBands(px, kv, start_band(px.sat), a)

\* for (ib = start_band; ib <= end_band; ib++) of the refinement
RECURSIVE RefineBands(_, _, _, _)
RefineBands(px, kv, ib, acc) ==
    IF ib > end_band(px.sat) \/ Stopped(acc) THEN acc
    ELSE IF ib # px.iband1 /\ FLt(Zero, px.erelc[ib])
    THEN LET roslamb == kv[ib]
             point_error == FSub(roslamb, FMul(px.erelc[ib], acc.ros1))
         IN  IF roslamb = Fail \/ ~acc.ok
             THEN RefineBands(px, kv, ib + 1, Called(acc, roslamb))
             ELSE RefineBands(px, kv, ib + 1,
                    [Called(acc, roslamb) EXCEPT
                       !.testth = @ \/ FLt(FSub(roslamb,
                                     TthOf(px.sat, px.water)[ib]), Zero),
                       !.sum = IF px.water
                               THEN FAdd(@, FMul(roslamb, roslamb))
                               ELSE FAdd(@, FMul(point_error, point_error)),
                       !.nbval = @ + 1])
    ELSE RefineBands(px, kv, ib + 1, acc)

\* (variant: the driver band is left out of the residual for water too)
EvalRefineNoDriver(px, kv) ==
    LET a == DriverBand(px, kv)
    IN  IF Stopped(a) THEN a
        ELSE RefineBands(px, kv, start_band(px.sat), a)

\* the evaluation of the residual at raotmin by the refinement code
EvalRefine(px, kv) ==
    LET a == DriverBand(px, kv)
        b == IF a.ok /\ px.water /\ FLt(Zero, px.erelc[px.iband1])
             THEN [a EXCEPT !.sum = FAdd(@, FMul(a.ros1, a.ros1)),
                            !.nbval = @ + 1]
             ELSE a
    IN  IF Stopped(a) THEN a
        ELSE RefineBands(px, kv, start_band(px.sat), b)

(***************************************************************************)
(* Inputs of the model                                                     *)
(***************************************************************************)
\* values of roslamb the kernel may return
KVals == {Zero, Lit(1, -1), Lit(3000, 0)}

\* the same for the kernel of subaeroret, which may also fail
LegacyKVals == {Zero, Lit(1, -1), Fail}

AllBands(sat) == start_band(sat) .. end_band(sat)

\* the erelc array that is 1.0 for the bands of set on and 0.0 elsewhere
Erelc(sat, on) ==
    [b \in AllBands(sat) |-> IF b \in on THEN Lit(1, 0) ELSE Zero]

Pixel(sat, water, iband1, on) ==
    [sat |-> sat, water |-> water, iband1 |-> iband1,
     erelc |-> Erelc(sat, on)]

\* the pixel inputs of the model:
\*   land, one band besides the driver band (nbval = 1)
\*   water, the driver band alone (nbval = 1), with tth = 0 and with tth > 0
\*   water, the driver band and another band (nbval = 2)
\*   no band with erelc > 0, and land with the driver band alone (nbval = 0)
PixelInputs ==
    { Pixel("SAT_LANDSAT_8", FALSE, 3, {2}),
      Pixel("SAT_SENTINEL_2", TRUE, 2, {2}),
      Pixel("SAT_LANDSAT_9", TRUE, 0, {0}),
      Pixel("SAT_LANDSAT_8", TRUE, 2, {2, 4}),
      Pixel("SAT_SENTINEL_2", FALSE, 3, {}),
      Pixel("SAT_LANDSAT_9", FALSE, 0, {0}) }

(***************************************************************************)
(* State                                                                   *)
(***************************************************************************)
VARIABLES
    pixels,   \* pixel id -> inputs of the pixel (PixelInputs)
    legacy,   \* TRUE: the calls are of subaeroret, FALSE: of subaeroret_new
    kern,     \* <<pixel id, AOT>> -> [band -> roslamb or Fail], the kernel
              \* values chosen so far
    todo,     \* worker -> the pixels the worker still has to process
    hint,     \* worker -> the iaots variable the worker passes in and out
    loc,      \* worker -> locals and outputs of the worker's current call
    results,  \* worker -> the results of the worker's finished calls
    aux       \* state of the run of a program of landsat_aux (NoAux when
              \* the behaviour is one of the retriever)

vars == <<pixels, legacy, kern, todo, hint, loc, results, aux>>

\* the variables of the retriever
retrVars == <<pixels, legacy, kern, todo, hint, loc, results>>

NoAux == [prog |-> "none"]

Workers == DOMAIN loc

Max(a, b) == IF a > b THEN a ELSE b

\* a worker outside a call
Idle ==
    [pc |-> "idle", p |-> 0, start |-> 0, retval |-> SUCCESS,
     iaot |-> 0, iaot1 |-> 0, iaot2 |-> 0,
     residual1 |-> Zero, residual2 |-> Zero, raot1 |-> Zero, raot2 |-> Zero,
     ros1 |-> Zero, raot550nm |-> Zero, testth |-> FALSE, nbval |-> 0,
     residual |-> Zero, raot |-> Zero, raotsaved |-> Zero, raotmin |-> Zero,
     residualm |-> Zero, evaluated |-> Zero, parabola |-> Zero,
     steps |-> 0, refines |-> 0, calls |-> 0, after |-> 0, failed |-> FALSE,
     exit |-> <<>>]

\* (variant: raot1 is not set at entry and keeps what the last call of
\* worker 1 left in it)
InitLocalsStale(p, iaots) ==
    [Idle EXCEPT
        !.pc = "loop", !.p = p, !.start = iaots,
        !.iaot = iaots,
        !.residual1 = Lit(2000, 0),
        !.residual2 = Lit(1000, 0),
        !.iaot2 = 0,
        !.iaot1 = 0,
        !.raot2 = Lit(1, -6),
        !.raot1 = loc[1].raot1,
        !.ros1 = Lit(1, 0),
        !.raot550nm = aot550nm[iaots],
        !.testth = FALSE,
        !.nbval = 0,
        !.residual = Zero]

\* the initialisation of the locals for pixel p and *iaots = iaots
InitLocals(p, iaots) ==
    [Idle EXCEPT
        !.pc = "loop", !.p = p, !.start = iaots,
        !.iaot = iaots,
        !.residual1 = Lit(2000, 0),
        !.residual2 = Lit(1000, 0),
        !.iaot2 = 0,
        !.iaot1 = 0,
        !.raot2 = Lit(1, -6),
        !.raot1 = Lit(1, -4),
        !.ros1 = Lit(1, 0),
        !.raot550nm = aot550nm[iaots],
        !.testth = FALSE,
        !.nbval = 0,
        !.residual = Zero]

\* return (ERROR) after a kernel call that did not return SUCCESS
Abort(l, acc) ==
    [l EXCEPT !.pc = "done", !.retval = ERROR, !.residual = acc.sum,
              !.nbval = acc.nbval, !.calls = @ + acc.calls,
              !.after = @ + acc.after, !.failed = TRUE]

\* (variant: without the iaot++ that follows the evaluation)
EvaluatedNoIncrement(l, acc) ==
    IF ~acc.ok THEN Abort(l, acc)
    ELSE [l EXCEPT !.residual = Rms(acc), !.nbval = acc.nbval,
                   !.evaluated = Rms(acc),
                   !.testth = acc.testth, !.ros1 = acc.ros1,
                   !.calls = @ + acc.calls]

\* the locals after the evaluation acc of the residual at l.raot550nm,
\* followed by iaot++
Evaluated(l, acc) ==
    IF ~acc.ok THEN Abort(l, acc)
    ELSE [l EXCEPT !.residual = Rms(acc), !.nbval = acc.nbval,
                   !.evaluated = Rms(acc),
                   !.testth = acc.testth, !.ros1 = acc.ros1,
                   !.calls = @ + acc.calls,
                   !.iaot = @ + 1]

\* (variant: residual <= residual1 in place of residual < residual1)
LoopCondNotStrict(l) ==
    /\ l.iaot < NAOT_VALS
    /\ FLe(l.residual, l.residual1)
    /\ ~l.testth

\* (variant: testth is not looked at)
LoopCondNoTestth(l) ==
    /\ l.iaot < NAOT_VALS
    /\ FLt(l.residual, l.residual1)

\* the condition of the advance loop
LoopCond(l) ==
    /\ l.iaot < NAOT_VALS
    /\ FLt(l.residual, l.residual1)
    /\ ~l.testth

\* "Reset variables for this loop"
Shift(l) ==
    [l EXCEPT
        !.residual2 = l.residual1,
        !.iaot2 = l.iaot1,
        !.raot2 = l.raot1,
        !.residual1 = l.residual,
        !.raot1 = l.raot550nm,
        !.iaot1 = l.iaot,
        !.raot550nm = aot550nm[l.iaot],
        !.residual = Zero,
        !.nbval = 0,
        !.testth = FALSE,
        !.steps = @ + 1]

\* the values at the exit of the advance loop
AtExit(l) ==
    [l EXCEPT !.exit = <<l.residual, l.residual1, l.residual2>>]

\* the minimum of the parabola through the three (raot, residual) pairs
ParabolaMin(l) ==
    LET raot == l.raot550nm
        xa == FMul(FSub(l.residual1, l.residual), FSub(l.raot2, raot))
        xb == FMul(FSub(l.residual2, l.residual), FSub(l.raot1, raot))
    IN  FDiv(FMul(Lit(5, -1),
                  FSub(FMul(xa, FAdd(l.raot2, raot)),
                       FMul(xb, FAdd(l.raot1, raot)))),
             FSub(xa, xb))

\* (variant: the minimum is not validated)
RaotMinNotValidated(l) == ParabolaMin(l)

\* "Validate the min AOT ratio"
RaotMin(l) ==
    LET raotmin == ParabolaMin(l)
    IN  IF FLt(raotmin, Lit(1, -2)) \/ FGt(raotmin, Lit(4, 0))
        THEN l.raot550nm
        ELSE raotmin

\* "Check the residuals and reset the AOT ratio"
CheckResiduals(l, residualm) ==
    LET c0 == [residualm |-> residualm, raot |-> l.raot550nm]
        c1 == IF FGt(c0.residualm, l.residual)
              THEN [residualm |-> l.residual, raot |-> l.raotsaved]
              ELSE c0
        c2 == IF FGt(c1.residualm, l.residual1)
              THEN [residualm |-> l.residual1, raot |-> l.raot1]
              ELSE c1
        c3 == IF FGt(c2.residualm, l.residual2)
              THEN [residualm |-> l.residual2, raot |-> l.raot2]
              ELSE c2
    IN  c3

\* (variant: without the MAX)
ExportIaotsNoMax(l, water) ==
    IF water /\ l.iaot = 1 THEN 0 ELSE l.iaot2 - 3

\* (variant: from the newer index of the bracket)
ExportIaotsNewer(l, water) ==
    IF water /\ l.iaot = 1 THEN 0 ELSE Max(l.iaot1 - 3, 0)

\* "Check the iaot values": the value written to *iaots
ExportIaots(l, water) ==
    IF water /\ l.iaot = 1 THEN 0 ELSE Max(l.iaot2 - 3, 0)

\* the locals when the refinement starts: raot, raotsaved, raotmin
BeforeRefine(l) ==
    [l EXCEPT !.raot = l.raot550nm,
              !.raotsaved = l.raot550nm,
              !.parabola = ParabolaMin(l),
              !.raotmin = RaotMin(l),
              !.raot550nm = RaotMin(l),
              !.testth = FALSE,
              !.nbval = 0,
              !.refines = @ + 1]

\* the locals after the evaluation acc of the residual at raotmin
Refined(l, acc) ==
    IF ~acc.ok THEN [Abort(l, acc) EXCEPT !.residual = l.residual]
    ELSE LET c == CheckResiduals(l, Rms(acc))
         IN  [l EXCEPT !.pc = "done",
                       !.testth = acc.testth, !.ros1 = acc.ros1,
                       !.nbval = acc.nbval, !.calls = @ + acc.calls,
                       !.evaluated = Rms(acc),
                       !.residualm = c.residualm,
                       !.raot = c.raot,
                       !.residual = c.residualm]

(***************************************************************************)
(* Actions                                                                 *)
(***************************************************************************)
\* the values the kernel may return; only atmcorlamb2 of the calls of
\* subaeroret has its return value tested
KRange == IF legacy THEN LegacyKVals ELSE KVals

\* the kernel for pixel p at AOT x: the remembered values, or any values
Kernel(p, x) ==
    IF <<p, x>> \in DOMAIN kern
    THEN {kern[<<p, x>>]}
    ELSE [Needed(pixels[p]) -> KRange]

Remember(p, x, kv) ==
    kern' = IF <<p, x>> \in DOMAIN kern THEN kern
            ELSE kern @@ (<<p, x>> :> kv)

\* what the caller holds when the call that ended with locals l returned
Result(l, iaots) ==
    [p |-> l.p, start |-> l.start, retval |-> l.retval, raot |-> l.raot,
     residual |-> l.residual, iaots |-> iaots]

\* the worker's locals become l, its iaots variable becomes iaots, and the
\* result is handed to the caller when the call has returned
Step(w, l, iaots) ==
    /\ loc' = [loc EXCEPT ![w] = l]
    /\ hint' = [hint EXCEPT ![w] = iaots]
    /\ results' = IF l.pc = "done"
                  THEN [results EXCEPT ![w] = Append(@, Result(l, iaots))]
                  ELSE results

\* entry of the retriever up to the advance loop
Start(w) ==
    /\ loc[w].pc \in {"idle", "done"}
    /\ todo[w] # <<>>
    /\ \E l \in {InitLocals(Head(todo[w]), hint[w])} :
       \E kv \in Kernel(l.p, l.raot550nm) :
       \E r \in {Evaluated(l, EvalAdvance(pixels[l.p], kv))} :
          /\ Step(w, r, hint[w])
          /\ Remember(l.p, l.raot550nm, kv)
    /\ todo' = [todo EXCEPT ![w] = Tail(@)]
    /\ UNCHANGED <<pixels, legacy, aux>>

\* one iteration of the advance loop
Advance(w) ==
    /\ loc[w].pc = "loop"
    /\ LoopCond(loc[w])
    /\ \E l \in {Shift(loc[w])} :
       \E kv \in Kernel(l.p, l.raot550nm) :
       \E r \in {Evaluated(l, EvalAdvance(pixels[l.p], kv))} :
          /\ Step(w, r, hint[w])
          /\ Remember(l.p, l.raot550nm, kv)
    /\ UNCHANGED <<pixels, legacy, aux, todo>>

\* exit of the advance loop with iaot == 1: no refinement
NoRefine(w) ==
    /\ loc[w].pc = "loop"
    /\ ~LoopCond(loc[w])
    /\ loc[w].iaot = 1
    /\ Step(w, [AtExit(loc[w]) EXCEPT !.pc = "done",
                                      !.raot = loc[w].raot550nm],
            hint[w])
    /\ UNCHANGED <<pixels, legacy, aux, kern, todo>>

\* exit of the advance loop with iaot != 1: the refinement
Refine(w) ==
    /\ loc[w].pc = "loop"
    /\ ~LoopCond(loc[w])
    /\ loc[w].iaot # 1
    /\ \E l \in {BeforeRefine(AtExit(loc[w]))} :
       \E kv \in Kernel(l.p, l.raot550nm) :
       \E r \in {Refined(l, EvalRefine(pixels[l.p], kv))} :
          /\ Step(w, r, IF r.retval = SUCCESS
                        THEN ExportIaots(r, pixels[l.p].water)
                        ELSE hint[w])
          /\ Remember(l.p, l.raot550nm, kv)
    /\ UNCHANGED <<pixels, legacy, aux, todo>>

(***************************************************************************)
(* Spec: one call of subaeroret_new on one pixel, from any starting iaots  *)
(***************************************************************************)
Init ==
    /\ \E px \in PixelInputs : pixels = (1 :> px)
    /\ legacy = FALSE
    /\ aux = NoAux
    /\ kern = <<>>
    /\ todo = (1 :> <<1>>)
    /\ hint \in [{1} -> 0 .. NAOT_VALS - 1]
    /\ loc = (1 :> Idle)
    /\ results = (1 :> <<>>)

Next ==
    \/ \E w \in Workers : Start(w)
    \/ \E w \in Workers : Advance(w)
    \/ \E w \in Workers : NoRefine(w)
    \/ \E w \in Workers : Refine(w)

Spec == Init /\ [][Next]_vars

(***************************************************************************)
(* Properties of one call                                                  *)
(***************************************************************************)
\* worker w's call has returned SUCCESS
Returned(w) == loc[w].pc = "done" /\ loc[w].retval = SUCCESS

\* worker w's call has returned SUCCESS after the refinement
ReturnedRefined(w) == Returned(w) /\ loc[w].refines = 1

\* C1: on every SUCCESS return the AOT ratio raot lies in [0.01, 5.0].
C1_RaotInRange ==
    \A w \in Workers :
        Returned(w) =>
            FLe(Lit(1, -2), loc[w].raot) /\ FLe(loc[w].raot, Lit(5, 0))

\* C2: on every SUCCESS return the residual is finite and not negative,
\* whatever the erelc array.
C2_ResidualFinite ==
    \A w \in Workers :
        Returned(w) =>
            IsFinite(loc[w].residual) /\ FLe(Zero, loc[w].residual)

\* C3: after the refinement the residual returned is at most each of
\* residual, residual1 and residual2 as they were when the advance loop was
\* left.
C3_RefinedAtMostBracket ==
    \A w \in Workers :
        ReturnedRefined(w) =>
            \A i \in 1 .. 3 : FLe(loc[w].residual, loc[w].exit[i])

\* C4: every accepted step of the advance loop makes residual1 strictly
\* smaller, and after at least one accepted step residual1 < residual2.
C4_StrictDescent ==
    [][\A w \in Workers :
          /\ loc'[w].steps = loc[w].steps + 1 =>
                FLt(loc'[w].residual1,
                    IF loc[w].pc = "loop" THEN loc[w].residual1
                    ELSE Lit(2000, 0))
          /\ loc'[w].steps >= 1 =>
                FLt(loc'[w].residual1, loc'[w].residual2)]_vars

\* a call has accepted two steps
C4_Witness ==
    \E w \in Workers : loc[w].steps >= 2

\* C5: a call terminates: each of its steps either accepts one more AOT of
\* the table or returns, at most 21 - iaots steps are accepted (so at most
\* 22 evaluations are made in the advance loop), at most one refinement
\* evaluation follows, and a call that has not returned has a next step.
C5_Terminates ==
    [][\A w \in Workers :
          /\ loc'[w].steps <= NAOT_VALS - 1 - loc'[w].start
          /\ loc'[w].steps + 1 <= NAOT_VALS
          /\ loc'[w].refines <= 1
          /\ loc[w].pc = "loop" /\ loc'[w] # loc[w] =>
                \/ loc'[w].pc = "done" /\ loc'[w].steps = loc[w].steps
                \/ loc'[w].pc = "loop" /\ loc'[w].steps = loc[w].steps + 1
          /\ loc'[w].pc = "loop" =>
                loc'[w].iaot \in 1 .. (IF LoopCond(loc'[w])
                                      THEN NAOT_VALS - 1
                                      ELSE NAOT_VALS)]_vars

\* a call has returned after accepted steps and the refinement
C5_Witness ==
    \E w \in Workers : ReturnedRefined(w) /\ loc[w].steps >= 2

\* C6: the iaots handed back on return is in 0 .. 21.
C6_IaotsInRange ==
    \A w \in Workers :
        loc[w].pc = "done" => hint[w] \in 0 .. NAOT_VALS - 1

\* a call that started at a nonzero iaots has returned after the refinement
C6_Witness ==
    \E w \in Workers : ReturnedRefined(w) /\ loc[w].start > 0

\* C7: on a SUCCESS return the iaots handed back is max(iaot2 - 3, 0), and
\* 0 for a water pixel that left the advance loop with iaot = 1.
C7_IaotsExported ==
    \A w \in Workers :
        Returned(w) =>
            hint[w] = IF pixels[loc[w].p].water /\ loc[w].iaot = 1
                      THEN 0
                      ELSE Max(loc[w].iaot2 - 3, 0)

\* a call has handed back a nonzero iaots
C7_Witness ==
    \E w \in Workers : Returned(w) /\ hint[w] > 0

(***************************************************************************)
(* SpecLegacy: one call of subaeroret, whose kernel may fail               *)
(***************************************************************************)
InitLegacy ==
    /\ \E px \in PixelInputs : pixels = (1 :> px)
    /\ legacy = TRUE
    /\ aux = NoAux
    /\ kern = <<>>
    /\ todo = (1 :> <<1>>)
    /\ hint \in [{1} -> 0 .. NAOT_VALS - 1]
    /\ loc = (1 :> Idle)
    /\ results = (1 :> <<>>)

SpecLegacy == InitLegacy /\ [][Next]_vars

\* C10: when a kernel call of subaeroret does not return SUCCESS, the call
\* returns ERROR at once: no further kernel call is made and the caller's
\* iaots keeps the value it had on input; ERROR is returned for no other
\* reason.
C10_ErrorAtOnce ==
    \A w \in Workers :
        /\ loc[w].failed =>
              /\ loc[w].pc = "done"
              /\ loc[w].retval = ERROR
              /\ loc[w].after = 0
              /\ hint[w] = loc[w].start
        /\ loc[w].retval = ERROR => loc[w].failed

\* a kernel call has failed after an accepted step of a call that started
\* at a nonzero iaots
C10_Witness ==
    \E w \in Workers :
        loc[w].failed /\ loc[w].steps >= 1 /\ loc[w].start > 0

(***************************************************************************)
(* SpecTwice: two workers call subaeroret_new on the same pixel from the   *)
(* same starting iaots, in any interleaving                                *)
(***************************************************************************)
\* the starting iaots of the two workers: the first index, the least index
\* from which two accepted steps hand back a nonzero iaots, the last index
Starts == {0, 3, NAOT_VALS - 1}

InitTwice ==
    /\ \E px \in PixelInputs : pixels = (1 :> px)
    /\ legacy = FALSE
    /\ aux = NoAux
    /\ kern = <<>>
    /\ todo = (1 :> <<1>> @@ 2 :> <<1>>)
    /\ \E h \in Starts : hint = (1 :> h @@ 2 :> h)
    /\ loc = (1 :> Idle @@ 2 :> Idle)
    /\ results = (1 :> <<>> @@ 2 :> <<>>)

SpecTwice == InitTwice /\ [][Next]_vars

\* the finished calls: <<worker, index in the worker's results>>
Calls == {c \in Workers \X (1 .. 2) : c[2] <= Len(results[c[1]])}

ResultOf(c) == results[c[1]][c[2]]

OrderPixels ==
    { Pixel("SAT_LANDSAT_9", TRUE, 0, {0}),
      Pixel("SAT_SENTINEL_2", TRUE, 2, {2}) }

InitOrder ==
    /\ \E a, b \in OrderPixels : a # b /\ pixels = (1 :> a @@ 2 :> b)
    /\ legacy = FALSE
    /\ aux = NoAux
    /\ kern = <<>>
    /\ todo = (1 :> <<1, 2>> @@ 2 :> <<2>>)
    /\ \E h \in Starts : hint = (1 :> h @@ 2 :> h)
    /\ loc = (1 :> Idle @@ 2 :> Idle)
    /\ results = (1 :> <<>> @@ 2 :> <<>>)

SpecOrder == InitOrder /\ [][Next]_vars

\* C9 as stated: the raot and the residual returned for a pixel do not
\* depend on the pixels the worker processed before it.
C9_HistoryFree ==
    \A c, d \in Calls :
        ResultOf(c).p = ResultOf(d).p =>
            /\ ResultOf(c).raot = ResultOf(d).raot
            /\ ResultOf(c).residual = ResultOf(d).residual

\* C9 amended: the pixels a worker processed before a pixel reach the raot
\* and the residual returned for it through the iaots hint only: the second
\* call of a worker and the first call of another worker on the same pixel
\* return the same raot and residual when they start from the same iaots.
C9_ThroughHintOnly ==
    \A c, d \in Calls :
        /\ c[2] = 2
        /\ d[2] = 1
        /\ ResultOf(c).p = ResultOf(d).p
        /\ ResultOf(c).start = ResultOf(d).start
        => /\ ResultOf(c).raot = ResultOf(d).raot
           /\ ResultOf(c).residual = ResultOf(d).residual

\* worker 1 has processed pixel 2 after a pixel on which it accepted steps,
\* worker 2 has processed pixel 2 alone, from the same iaots
C9_Witness ==
    /\ Len(results[1]) = 2
    /\ Len(results[2]) = 1
    /\ results[1][2].start = results[2][1].start
    /\ results[1][1].raot # aot550nm[results[1][1].start]
    /\ ReturnedRefined(1)
    /\ ReturnedRefined(2)

(***************************************************************************)
(* get_args of gapfill_viirs_aux (lasrc/landsat_aux/src/get_args.c).       *)
(* Strings are sequences of characters.  The command line is the sequence  *)
(* of the options getopt_long finds in it, each with its argument.         *)
(***************************************************************************)
\* most options on a command line of the model
MaxArgs == 4

DigitChars == <<"0", "1", "2", "3", "4", "5", "6", "7", "8", "9">>

IsDigit(c) == \E i \in 1 .. 10 : DigitChars[i] = c

DigitVal(c) == (CHOOSE i \in 1 .. 10 : DigitChars[i] = c) - 1

\* the value of the leading digits of s, continuing from acc
RECURSIVE AtoiDigits(_, _)
AtoiDigits(s, acc) ==
    IF s = <<>> \/ ~IsDigit(Head(s)) THEN acc
    ELSE AtoiDigits(Tail(s), 10 * acc + DigitVal(Head(s)))

\* atoi: leading blanks, an optional sign, then digits up to the first
\* character that is not a digit
RECURSIVE Atoi(_)
Atoi(s) ==
    IF s = <<>> THEN 0
    ELSE IF Head(s) = " " THEN Atoi(Tail(s))
    ELSE IF Head(s) = "-" THEN 0 - AtoiDigits(Tail(s), 0)
    ELSE IF Head(s) = "+" THEN AtoiDigits(Tail(s), 0)
    ELSE AtoiDigits(s, 0)

\* strstr (haystack, needle) != NULL
Strstr(haystack, needle) ==
    \E i \in 0 .. Len(haystack) - Len(needle) :
        SubSeq(haystack, i + 1, i + Len(needle)) = needle

\* "04ANC.A20"
AncTag == <<"0", "4", "A", "N", "C", ".", "A", "2", "0">>

\* a char pointer: NULL or a string
NullStr == [null |-> TRUE, s |-> <<>>]

Str(s) == [null |-> FALSE, s |-> s]

\* one option of the command line as getopt_long returns it: "?" stands
\* for an unknown option or an option whose argument is missing
Opt(c, optarg) == [c |-> c, optarg |-> optarg]

\* the options of the model
FileArgs == {<<"V", "J", "1">> \o AncTag \o <<"2", "4">>,
             <<"0", "4", "A", "N", "C", ".", "A", "1", "9">>}

MonthArgs == {<<"1", "2">>, <<"1", "3">>, <<"0">>}

DayArgs == {<<"3", "1">>, <<"3", "2">>, <<" ", "7", "x">>}

YearArgs == {<<"2", "0", "2", "4">>}

Options ==
    {Opt("v", a) : a \in FileArgs} \cup {Opt("m", a) : a \in MonthArgs} \cup
    {Opt("d", a) : a \in DayArgs} \cup {Opt("y", a) : a \in YearArgs} \cup
    {Opt("h", <<>>), Opt("?", <<>>)}

RECURSIVE SeqsUpTo(_, _)
SeqsUpTo(S, n) ==
    IF n = 0 THEN {<<>>}
    ELSE LET shorter == SeqsUpTo(S, n - 1)
         IN  shorter \cup {Append(q, x) : q \in shorter, x \in S}

\* values an int of main that was not initialised may hold
Garbage == {0, 7}

\* get_args is entered: main has not initialised aux_month, aux_day and
\* aux_year, and viirs_aux_file is NULL
ArgsEntry(argv, month, day, year) ==
    [prog |-> "get_args", pc |-> "getopt", argv |-> argv, optind |-> 1,
     month |-> month, day |-> day, year |-> year,
     viirs_aux_file |-> NullStr, retval |-> SUCCESS, given |-> {}]

\* return (ERROR) / return (SUCCESS)
ArgsReturn(a, retval) == [a EXCEPT !.pc = "done", !.retval = retval]

\* the checks made after the loop over the options
ArgsValidate(a) ==
    IF a.viirs_aux_file.null THEN ArgsReturn(a, ERROR)
    ELSE IF a.month <= 0 \/ a.month > 12 THEN ArgsReturn(a, ERROR)
    ELSE IF a.day <= 0 \/ a.day > 31 THEN ArgsReturn(a, ERROR)
    ELSE IF ~Strstr(a.viirs_aux_file.s, AncTag) THEN ArgsReturn(a, ERROR)
    ELSE ArgsReturn(a, SUCCESS)

\* getopt_long has returned option c: the option the loop is at
AtOption(c) ==
    /\ aux.prog = "get_args"
    /\ aux.pc = "getopt"
    /\ aux.optind <= Len(aux.argv)
    /\ aux.argv[aux.optind].c = c

\* the option is consumed
Consumed(a) ==
    [a EXCEPT !.optind = @ + 1, !.given = @ \cup {a.argv[a.optind].c}]

OptArg == aux.argv[aux.optind].optarg

\* case 'h'
GetoptHelp ==
    /\ AtOption("h")
    /\ aux' = ArgsReturn(Consumed(aux), ERROR)
    /\ UNCHANGED retrVars

\* case 'm'
GetoptMonth ==
    /\ AtOption("m")
    /\ aux' = [Consumed(aux) EXCEPT !.month = Atoi(OptArg)]
    /\ UNCHANGED retrVars

\* case 'd'
GetoptDay ==
    /\ AtOption("d")
    /\ aux' = [Consumed(aux) EXCEPT !.day = Atoi(OptArg)]
    /\ UNCHANGED retrVars

\* case 'y'
GetoptYear ==
    /\ AtOption("y")
    /\ aux' = [Consumed(aux) EXCEPT !.year = Atoi(OptArg)]
    /\ UNCHANGED retrVars

\* case 'v'
GetoptViirsAux ==
    /\ AtOption("v")
    /\ aux' = [Consumed(aux) EXCEPT !.viirs_aux_file = Str(OptArg)]
    /\ UNCHANGED retrVars

\* case '?' and default
GetoptUnknown ==
    /\ AtOption("?")
    /\ aux' = ArgsReturn(Consumed(aux), ERROR)
    /\ UNCHANGED retrVars

\* getopt_long has returned -1: the checks after the loop
GetoptEnd ==
    /\ aux.prog = "get_args"
    /\ aux.pc = "getopt"
    /\ aux.optind > Len(aux.argv)
    /\ aux' = ArgsValidate(aux)
    /\ UNCHANGED retrVars

\* the retriever is not running
NoRetriever ==
    /\ pixels = <<>>
    /\ legacy = FALSE
    /\ kern = <<>>
    /\ todo = <<>>
    /\ hint = <<>>
    /\ loc = <<>>
    /\ results = <<>>

InitArgs ==
    /\ NoRetriever
    /\ \E argv \in SeqsUpTo(Options, MaxArgs) :
       \E month, day \in Garbage :
          aux = ArgsEntry(argv, month, day, 0)

NextArgs ==
    \/ GetoptHelp
    \/ GetoptMonth
    \/ GetoptDay
    \/ GetoptYear
    \/ GetoptViirsAux
    \/ GetoptUnknown
    \/ GetoptEnd

SpecArgs == InitArgs /\ [][NextArgs]_vars

\* C11: get_args returns SUCCESS exactly when --viirs_aux, --month, --day
\* and --year were all given, month is in 1..12, day is in 1..31 and the
\* file name contains "04ANC.A20"; otherwise it returns ERROR.
C11_ArgsChecked ==
    aux.prog = "get_args" /\ aux.pc = "done" =>
        (aux.retval = SUCCESS <=>
            /\ {"v", "m", "d", "y"} \subseteq aux.given
            /\ ~ ({"h", "?"} \cap aux.given # {})
            /\ aux.month \in 1 .. 12
            /\ aux.day \in 1 .. 31
            /\ ~aux.viirs_aux_file.null
            /\ Strstr(aux.viirs_aux_file.s, AncTag))

(***************************************************************************)
(* Properties of the residual and of the search (Spec)                     *)
(***************************************************************************)
\* the bands the claim lets contribute to the residual of pixel px
Contributing(px) ==
    {b \in start_band(px.sat) .. end_band(px.sat) :
        FLt(Zero, px.erelc[b]) /\ (px.water \/ b # px.iband1)}

\* the point error the claim gives band b for the kernel values kv
PointError(px, kv, b) ==
    IF px.water THEN kv[b]
    ELSE FSub(kv[b], FMul(px.erelc[b], kv[px.iband1]))

\* the sum of the squared point errors of the contributing bands from b up
RECURSIVE SumSquares(_, _, _, _)
SumSquares(px, kv, b, sum) ==
    IF b > end_band(px.sat) THEN sum
    ELSE SumSquares(px, kv, b + 1,
            IF b \in Contributing(px)
            THEN FAdd(sum, FMul(PointError(px, kv, b), PointError(px, kv, b)))
            ELSE sum)

\* C12: at every AOT candidate (grid points and the refinement AOT) the
\* divisor nbval is the number of bands with erelc > 0 in the band range,
\* without iband1 on land and with it on water, and the residual computed
\* is sqrt of the sum of their squared point errors over that number, the
\* point error being roslamb - erelc*ros1 on land and roslamb on water.
C12_BandsOfResidual ==
    \A w \in Workers :
        loc[w].pc \in {"loop", "done"} /\ ~loc[w].failed =>
            LET px == pixels[loc[w].p]
                kv == kern[<<loc[w].p, loc[w].raot550nm>>]
            IN  /\ loc[w].nbval = Cardinality(Contributing(px))
                /\ loc[w].evaluated =
                      FDiv(FSqrt(SumSquares(px, kv, start_band(px.sat), Zero)),
                           FromInt(loc[w].nbval))

\* a land pixel with a band besides iband1, or a water pixel with iband1
\* and another band, has been evaluated at the refinement AOT
C12_Witness ==
    \E w \in Workers :
        /\ ReturnedRefined(w)
        /\ loc[w].nbval = IF pixels[loc[w].p].water THEN 2 ELSE 1
        /\ loc[w].evaluated # Zero
        /\ loc[w].steps >= 1

\* C13: when the advance loop accepted no step, no refinement is performed
\* and the call returns raot = aot550nm[iaots on entry] with the residual
\* computed at that AOT, for every iaots on entry.
C13_NoStepNoRefinement ==
    \A w \in Workers :
        Returned(w) /\ loc[w].steps = 0 =>
            /\ loc[w].refines = 0
            /\ loc[w].raot = aot550nm[loc[w].start]
            /\ loc[w].residual = loc[w].exit[1]

\* the stored bracket of locals l
Bracket(l) ==
    <<l.raot1, l.residual1, l.iaot1, l.raot2, l.residual2, l.iaot2>>

\* C14: once the evaluation at a grid index has set testth, the advance
\* loop evaluates no later grid index, and the stored bracket stays as it
\* was at that exit.
C14_TestthHalts ==
    [][\A w \in Workers :
          loc[w].pc = "loop" /\ loc[w].testth =>
              /\ loc'[w].steps = loc[w].steps
              /\ loc'[w].iaot = loc[w].iaot
              /\ Bracket(loc'[w]) = Bracket(loc[w])]_vars

\* a call has returned after accepted steps, the last evaluation of the
\* advance loop having set testth while its residual was still decreasing
C14_Witness ==
    \E w \in Workers :
        /\ Returned(w)
        /\ loc[w].steps >= 1
        /\ loc[w].iaot < NAOT_VALS
        /\ FLt(loc[w].exit[1], loc[w].exit[2])

\* the parabolic minimum of worker w's refinement failed the validation
Discarded(w) ==
    /\ ReturnedRefined(w)
    /\ \/ FLt(loc[w].parabola, Lit(1, -2))
       \/ FGt(loc[w].parabola, Lit(4, 0))

\* C15 as stated: when the parabolic minimum is < 0.01 or > 4.0 the raot
\* returned is raot550nm, the last AOT the advance loop evaluated.
C15_DiscardedKeepsGridAot ==
    \A w \in Workers : Discarded(w) => loc[w].raot = loc[w].raotsaved

\* C15 amended: when the parabolic minimum is < 0.01 or > 4.0 the
\* refinement evaluates the last AOT of the advance loop in its place, and
\* the raot returned is that AOT only if the residual there is not greater
\* than residual1 and residual2; otherwise it is raot1 or raot2, whichever
\* the residual returned belongs to.
C15_DiscardedKeepsBest ==
    \A w \in Workers :
        Discarded(w) =>
            /\ loc[w].raot550nm = loc[w].raotsaved
            /\ IF \/ FGt(loc[w].exit[1], loc[w].exit[2])
                  \/ FGt(loc[w].exit[1], loc[w].exit[3])
               THEN \/ loc[w].raot = loc[w].raot1
                       /\ loc[w].residual = loc[w].residual1
                    \/ loc[w].raot = loc[w].raot2
                       /\ loc[w].residual = loc[w].residual2
               ELSE /\ loc[w].raot = loc[w].raotsaved
                    /\ loc[w].residual = loc[w].exit[1]

\* a minimum was discarded after accepted steps and raot1 was returned
C15_Witness ==
    \E w \in Workers :
        /\ Discarded(w)
        /\ loc[w].steps >= 1
        /\ loc[w].raot = loc[w].raot1
        /\ loc[w].raot # loc[w].raotsaved

\* the parabolic minimum of worker w's call passed the validation
Validated(w) ==
    /\ ReturnedRefined(w)
    /\ ~FLt(loc[w].parabola, Lit(1, -2))
    /\ ~FGt(loc[w].parabola, Lit(4, 0))

\* the candidates <<AOT, residual>> of the call that ended with locals l, in
\* the order in which the retriever compares them
Candidates(l) ==
    << <<l.raot550nm, l.evaluated>>, <<l.raotsaved, l.exit[1]>>,
       <<l.raot1, l.residual1>>, <<l.raot2, l.residual2>> >>

\* the candidate kept when the candidates from the i-th on are compared to
\* the current one, a later one replacing it when strictly smaller
RECURSIVE KeepSmaller(_, _, _)
KeepSmaller(cands, i, current) ==
    IF i > Len(cands) THEN current
    ELSE KeepSmaller(cands, i + 1,
                     IF FLt(cands[i][2], current[2]) THEN cands[i]
                     ELSE current)

\* C16: when raot_min passes validation, the AOT and residual returned are
\* those of the candidate with the smallest residual among (raot_min,
\* residualm), (raot_saved, residual), (raot1, residual1), (raot2,
\* residual2), compared in that order, a later candidate replacing the
\* current one only when its residual is strictly smaller
C16_SmallestCandidate ==
    \A w \in Workers :
        Validated(w) =>
            LET cands == Candidates(loc[w])
                kept == KeepSmaller(cands, 2, cands[1])
            IN  /\ <<loc[w].raot, loc[w].residual>> = kept
                /\ \A i \in 1 .. Len(cands) :
                      FLe(loc[w].residual, cands[i][2])

\* C18: when the residual computed at an AOT is not finite, the advance
\* loop ends at that AOT as it does when the residual stops decreasing, and
\* the call returns neither that AOT nor the residual that is not finite
C18_NonFiniteSkipped ==
    \A w \in Workers :
        /\ loc[w].pc = "loop" /\ ~IsFinite(loc[w].residual)
              => ~LoopCond(loc[w])
        /\ Returned(w) /\ ~IsFinite(loc[w].exit[1])
              => /\ loc[w].raot # aot550nm[loc[w].iaot - 1]
                 /\ IsFinite(loc[w].residual)

(***************************************************************************)
(* SpecBracket: calls that start near the end of the AOT table, where the  *)
(* kernel may give reflectances that fall by equal amounts over the last   *)
(* table entries, which are equally spaced (4.0, 4.5, 5.0)                 *)
(***************************************************************************)
\* roslamb values of the kernel at the last entries of the table
BracketKVals == {Zero, Lit(1, -1), Lit(2, -1)}

\* the starting iaots of SpecBracket
BracketStarts == {0, 19}

\* the number of table entries, from the starting one, whose kernel values
\* are drawn from BracketKVals
BracketLen == 3

BracketPixels ==
    { Pixel("SAT_SENTINEL_2", TRUE, 2, {2}),
      Pixel("SAT_LANDSAT_9", TRUE, 0, {0}),
      Pixel("SAT_LANDSAT_8", TRUE, 2, {2, 4}),
      Pixel("SAT_LANDSAT_8", FALSE, 3, {2}) }

InitBracket ==
    /\ \E px \in BracketPixels, iaots \in BracketStarts :
          /\ pixels = (1 :> px)
          /\ hint = (1 :> iaots)
          /\ kern \in [{<<1, aot550nm[i]>> :
                            i \in (iaots .. iaots + BracketLen - 1)
                                      \cap (0 .. NAOT_VALS - 1)} ->
                          [Needed(px) -> BracketKVals]]
    /\ legacy = FALSE
    /\ aux = NoAux
    /\ todo = (1 :> <<1>>)
    /\ loc = (1 :> Idle)
    /\ results = (1 :> <<>>)

SpecBracket == InitBracket /\ [][Next]_vars

\* xa - xb of the parabolic fit, from the bracket the advance loop left
XaMinusXb(l) ==
    FSub(FMul(FSub(l.residual1, l.exit[1]), FSub(l.raot2, l.raotsaved)),
         FMul(FSub(l.residual2, l.exit[1]), FSub(l.raot1, l.raotsaved)))

DegenerateBracket(w) ==
    /\ ReturnedRefined(w)
    /\ XaMinusXb(loc[w]) = Zero

\* C17: when xa - xb is zero in the parabolic fit, the parabolic minimum is
\* not a finite number, and the retriever returns raot = raotsaved with the
\* residual of the advance loop unchanged
C17_DegenerateFallsBack ==
    \A w \in Workers :
        DegenerateBracket(w) =>
            /\ ~IsFinite(loc[w].parabola)
            /\ loc[w].raot = loc[w].raotsaved
            /\ loc[w].residual = loc[w].exit[1]

\* a degenerate bracket has been refined after two accepted steps
C17_Witness ==
    \E w \in Workers :
        /\ DegenerateBracket(w)
        /\ loc[w].steps >= 2
        /\ loc[w].raot = aot550nm[NAOT_VALS - 1]

(***************************************************************************)
(* SpecEither: one call of subaeroret_new or of subaeroret                 *)
(***************************************************************************)
InitEither == Init \/ InitLegacy

SpecEither == InitEither /\ [][Next]_vars

\* the band range and the tth table stated for (satellite, water)
StatedBands(sat) ==
    IF sat \in {"SAT_LANDSAT_8", "SAT_LANDSAT_9"} THEN 0 .. 6 ELSE 0 .. 10

StatedTth(sat, water) ==
    IF sat \in {"SAT_LANDSAT_8", "SAT_LANDSAT_9"}
    THEN IF water
         THEN Arr(<<Lit(1, -3), Lit(1, -3), Zero, Lit(1, -3), Lit(1, -3),
                    Zero, Lit(1, -4), Zero>>)
         ELSE Arr(<<Lit(1, -3), Lit(1, -3), Zero, Lit(1, -3), Zero, Zero,
                    Lit(1, -4), Zero>>)
    ELSE IF water
         THEN Arr(<<Lit(1, -3), Zero, Zero, Lit(1, -3), Zero, Zero, Zero,
                    Zero, Lit(1, -3), Zero, Lit(1, -4)>>)
         ELSE Arr(<<Lit(1, -3), Lit(1, -3), Zero, Lit(1, -3), Zero, Zero,
                    Zero, Zero, Zero, Zero, Lit(1, -4)>>)

\* C19: the band range and the tth table are a function of (satellite,
\* water) alone, with the values stated, in subaeroret_new and in subaeroret
\* alike: the bands of every evaluation lie in the range, and testth is set
\* by an evaluation exactly when the reflectance of one of its bands is
\* below the stated tth of that band
C19_BandsAndTth ==
    /\ \A sat \in Sats, water \in BOOLEAN :
          /\ AllBands(sat) = StatedBands(sat)
          /\ TthOf(sat, water) = StatedTth(sat, water)
    /\ \A w \in Workers :
          loc[w].pc = "loop" =>
              LET px == pixels[loc[w].p]
                  kv == kern[<<loc[w].p, loc[w].raot550nm>>]
                  tth == StatedTth(px.sat, px.water)
              IN  /\ DOMAIN kv \subseteq StatedBands(px.sat) \cup {px.iband1}
                  /\ loc[w].testth
                        = (\E ib \in DOMAIN kv :
                              FLt(FSub(kv[ib], tth[ib]), Zero))

\* testth was set by a band whose tth is positive for water only, in a call
\* of subaeroret_new and in a call of subaeroret
C19_Witness ==
    \E w \in Workers :
        /\ loc[w].pc = "loop"
        /\ loc[w].testth
        /\ pixels[loc[w].p].water
        /\ \E ib \in DOMAIN kern[<<loc[w].p, loc[w].raot550nm>>] :
              /\ kern[<<loc[w].p, loc[w].raot550nm>>][ib] = Zero
              /\ FLt(Zero, StatedTth(pixels[loc[w].p].sat, TRUE)[ib])
              /\ StatedTth(pixels[loc[w].p].sat, FALSE)[ib] = Zero

(***************************************************************************)
(* determine_weights of gapfill_viirs_aux                                  *)
(*                                                                         *)
(* The weights are C floats (IEEE single precision).  A weight is held    *)
(* here as the integer number of units of 2^-22 it is equal to: every      *)
(* float in [2, 128) is a whole number of such units, a multiple of        *)
(* Ulp.  The double constant DAYSTEP (3.3333333) is 13981013 units and a   *)
(* fraction of a unit below one half (0.19...), so the float nearest to    *)
(* the sum or difference of a float and DAYSTEP is found with integers.    *)
(* Weights below 2.0 (the previous month's weight after the 15th) are      *)
(* rounded to whole units; the code only compares them with 3.0.           *)
(***************************************************************************)
\* units of 2^-22 in 1.0
WeightUnits == 2 ^ 22

\* #define DAYSTEP 3.3333333, in units, without its fraction of a unit
DAYSTEP == 13981013

\* the float literal x.0
Weight(x) == x * WeightUnits

\* the spacing of the floats around n units
RECURSIVE Ulp(_)
Ulp(n) == IF n < 2 ^ 24 THEN 1 ELSE 2 * Ulp(n \div 2)

\* (float) (w + DAYSTEP)
AddDaystep(w) ==
    LET n == w + DAYSTEP
        g == Ulp(n)
    IN  ((n + g \div 2) \div g) * g

\* (float) (w - DAYSTEP)
SubDaystep(w) ==
    LET n == w - DAYSTEP
        g == Ulp(n - 1)
    IN  IF g = 1 THEN n ELSE ((n - 1 + g \div 2) \div g) * g

\* the days of the auxiliary file
AuxDays == 1 .. 31

\* determine_weights has been called for aux_day; the three outputs are set
\* before they are read
WeightsEntry(aux_day) ==
    [prog |-> "determine_weights", pc |-> "entry", aux_day |-> aux_day,
     i |-> 0, target_weight |-> 0, prev_weight |-> 0, next_weight |-> 0]

AtWeights(pc) == aux.prog = "determine_weights" /\ aux.pc = pc

\* *target_weight = 50.0; *prev_weight = 50.0; *next_weight = 0.0; i = 1
WeightsStart ==
    /\ AtWeights("entry")
    /\ aux' = [aux EXCEPT !.pc = "first", !.i = 1,
                          !.target_weight = Weight(50),
                          !.prev_weight = Weight(50),
                          !.next_weight = Weight(0)]
    /\ UNCHANGED retrVars

\* one iteration of the loop over the first half of the month
FirstHalf ==
    /\ AtWeights("first")
    /\ aux.i <= 15
    /\ ~(aux.i >= aux.aux_day)
    /\ aux' = [aux EXCEPT !.target_weight = AddDaystep(@),
                          !.prev_weight = SubDaystep(@),
                          !.i = @ + 1]
    /\ UNCHANGED retrVars

\* the end of the first loop (i > 15 or break) and if (aux_day >= 15)
FirstHalfEnd ==
    /\ AtWeights("first")
    /\ aux.i > 15 \/ aux.i >= aux.aux_day
    /\ aux' = IF aux.aux_day >= 15
              THEN [aux EXCEPT !.pc = "second", !.i = 16]
              ELSE [aux EXCEPT !.pc = "adjust"]
    /\ UNCHANGED retrVars

\* one iteration of the loop over the second half of the month
SecondHalf ==
    /\ AtWeights("second")
    /\ aux.i <= 31
    /\ ~(aux.i = aux.aux_day)
    /\ aux' = [aux EXCEPT !.target_weight = SubDaystep(@),
                          !.next_weight = AddDaystep(@),
                          !.i = @ + 1]
    /\ UNCHANGED retrVars

\* the end of the second loop (i > 31 or break)
SecondHalfEnd ==
    /\ AtWeights("second")
    /\ aux.i > 31 \/ aux.i = aux.aux_day
    /\ aux' = [aux EXCEPT !.pc = "adjust"]
    /\ UNCHANGED retrVars

\* the weights below 3.0 become zero, and the function returns
AdjustWeights ==
    /\ AtWeights("adjust")
    /\ aux' = [aux EXCEPT
                 !.pc = "done",
                 !.prev_weight = IF @ < Weight(3) THEN Weight(0) ELSE @,
                 !.next_weight = IF @ < Weight(3) THEN Weight(0) ELSE @]
    /\ UNCHANGED retrVars

InitWeights ==
    /\ NoRetriever
    /\ \E aux_day \in AuxDays : aux = WeightsEntry(aux_day)

NextWeights ==
    \/ WeightsStart
    \/ FirstHalf
    \/ FirstHalfEnd
    \/ SecondHalf
    \/ SecondHalfEnd
    \/ AdjustWeights

SpecWeights == InitWeights /\ [][NextWeights]_vars

\* determine_weights has returned
WeightsDone == AtWeights("done")

\* w is x, to a thousandth
Near(w, x) ==
    /\ w - x <= WeightUnits \div 1000
    /\ x - w <= WeightUnits \div 1000

\* C20: for every aux_day in 1..31 the weight of the target month is
\* between 50 and 100: it is 50 at day 1, DAYSTEP more for each day up to
\* day 15, and from there DAYSTEP less for each day down to 50 at day 30
C20_TargetWeight ==
    WeightsDone =>
        /\ Weight(50) <= aux.target_weight
        /\ aux.target_weight <= Weight(100)
        /\ aux.aux_day = 1 => aux.target_weight = Weight(50)
        /\ aux.aux_day \in 2 .. 15 =>
              Near(aux.target_weight,
                   Weight(50) + (aux.aux_day - 1) * DAYSTEP)
        /\ aux.aux_day \in 16 .. 30 =>
              Near(aux.target_weight,
                   Weight(50) + (30 - aux.aux_day) * DAYSTEP)

\* C21: the previous month is used in the first half of the month only and
\* the next month in the second half only: next_weight is 0 for aux_day in
\* 1..15, prev_weight is 0 for aux_day in 16..31, and the two are never
\* both positive
C21_OneNeighbourMonth ==
    WeightsDone =>
        /\ aux.aux_day \in 1 .. 15 => aux.next_weight = 0
        /\ aux.aux_day \in 16 .. 31 => aux.prev_weight = 0
        /\ ~(aux.prev_weight > 0 /\ aux.next_weight > 0)

(***************************************************************************)
(* get_fill_value of gapfill_viirs_aux                                     *)
(*                                                                         *)
(* The monthly averages are the integers read from the uint8_t and         *)
(* uint16_t arrays, converted to float without loss; round() leaves them   *)
(* as they are.  The weights are floats in units of 2^-22 as above.  The   *)
(* weighted average is kept as its exact numerator over 100 * WeightUnits: *)
(* the roundings of the products by 0.01 and of the sums, below one part   *)
(* in a million, are not followed.                                         *)
(***************************************************************************)
VIIRS_FILL == 0

\* the float nearest to n units (ties to even)
RoundFloat(n) ==
    LET g == Ulp(n)
        q == n \div g
        r == n % g
    IN  IF 2 * r < g THEN q * g
        ELSE IF 2 * r > g THEN (q + 1) * g
        ELSE IF q % 2 = 0 THEN q * g ELSE (q + 1) * g

\* the three weights, and the three averages of one pixel
Weights(prev, target, next) ==
    [prev |-> prev, target |-> target, next |-> next]

\* (variant: the weight of a fill previous month is left where it is)
PrevFillKept(w, avg) == w

\* if (round (prev_avg) == VIIRS_FILL)
PrevFill(w, avg) ==
    IF avg.prev # VIIRS_FILL THEN w
    ELSE IF avg.target # VIIRS_FILL /\ avg.next # VIIRS_FILL
    THEN IF w.target >= w.next
         THEN [w EXCEPT !.target = RoundFloat(@ + w.prev)]
         ELSE [w EXCEPT !.next = RoundFloat(@ + w.prev)]
    ELSE IF avg.target # VIIRS_FILL THEN [w EXCEPT !.target = Weight(100)]
    ELSE IF avg.next # VIIRS_FILL THEN [w EXCEPT !.next = Weight(100)]
    ELSE w

\* if (round (target_avg) == VIIRS_FILL)
TargetFill(w, avg) ==
    IF avg.target # VIIRS_FILL THEN w
    ELSE IF avg.prev # VIIRS_FILL /\ avg.next # VIIRS_FILL
    THEN IF w.prev >= w.next
         THEN [w EXCEPT !.prev = RoundFloat(@ + w.target)]
         ELSE [w EXCEPT !.next = RoundFloat(@ + w.target)]
    ELSE IF avg.prev # VIIRS_FILL THEN [w EXCEPT !.prev = Weight(100)]
    ELSE IF avg.next # VIIRS_FILL THEN [w EXCEPT !.next = Weight(100)]
    ELSE w

\* if (round (next_avg) == VIIRS_FILL)
NextFill(w, avg) ==
    IF avg.next # VIIRS_FILL THEN w
    ELSE IF avg.prev # VIIRS_FILL /\ avg.target # VIIRS_FILL
    THEN IF w.prev >= w.target
         THEN [w EXCEPT !.prev = RoundFloat(@ + w.next)]
         ELSE [w EXCEPT !.target = RoundFloat(@ + w.next)]
    ELSE IF avg.prev # VIIRS_FILL THEN [w EXCEPT !.prev = Weight(100)]
    ELSE IF avg.target # VIIRS_FILL THEN [w EXCEPT !.target = Weight(100)]
    ELSE w

\* the weights after the three transfers
Transferred(w, avg) == NextFill(TargetFill(PrevFill(w, avg), avg), avg)

\* the sum of the weighted monthly averages, times 100 * WeightUnits
WgtAvg(w, avg) ==
    avg.target * w.target
      + (IF w.prev > 0 THEN avg.prev * w.prev ELSE 0)
      + (IF w.next > 0 THEN avg.next * w.next ELSE 0)

\* get_fill_value: the weights it applies and the weighted average
get_fill_value(w, avg) ==
    LET t == Transferred(w, avg)
    IN  [applied |-> t, wgt_avg |-> WgtAvg(t, avg)]

\* (uint8_t) x and (uint16_t) x for the weighted average x >= 0: the
\* fraction is dropped
Truncated(wgt_avg) == wgt_avg \div (100 * WeightUnits)

(***************************************************************************)
(* read_monthly_avgs of gapfill_viirs_aux                                  *)
(***************************************************************************)
\* the file <aux_dir>/<year>/monthly_avg_<kind>_<year>_<month>.img
MonthlyFile(kind, year, month) ==
    [kind |-> kind, year |-> year, month |-> month]

Kinds == {"oz", "wv"}

\* a monthly array that is NULL, and one holding the data read from file
NullData == [null |-> TRUE]
DataOf(file) == [null |-> FALSE, file |-> file]

prev_month(aux_month) == IF aux_month - 1 <= 0 THEN 12 ELSE aux_month - 1

next_month(aux_month) == IF aux_month + 1 > 12 THEN 1 ELSE aux_month + 1

\* (variant: the averages of a month are read whatever its weight)
ReadsMonthAlways(weight) == TRUE

\* if (prev_weight > 0.0), if (next_weight > 0.0) of read_monthly_avgs
ReadsMonth(weight) == weight > 0

\* (variant: the previous month is looked for in aux_year - 1 only)
PrevFilesLastYear(kind, aux_month, aux_year) ==
    << MonthlyFile(kind, aux_year - 1, prev_month(aux_month)) >>

\* the files tried, in this order, for the previous, target and next month
PrevFiles(kind, aux_month, aux_year) ==
    << MonthlyFile(kind, aux_year, prev_month(aux_month)),
       MonthlyFile(kind, aux_year - 1, prev_month(aux_month)) >>

TargetFiles(kind, aux_month, aux_year) ==
    << MonthlyFile(kind, aux_year - 1, aux_month) >>

NextFiles(kind, aux_month, aux_year) ==
    << MonthlyFile(kind, aux_year - 1, next_month(aux_month)) >>

\* the state of a call of read_monthly_avgs: its return value so far and
\* the arrays monthly_avg_oz_data, monthly_avg_wv_data
Monthly0 ==
    [retval |-> SUCCESS, returned |-> FALSE,
     data |-> [kind \in Kinds |-> [k \in 0 .. 2 |-> NullData]]]

\* the first file of tries that exists is read into the array k of kind;
\* return (ERROR) when none exists or when the allocation, the open or the
\* read fails
RECURSIVE Load(_, _, _, _, _, _)
Load(r, kind, k, tries, exists, io_ok) ==
    IF r.returned THEN r
    ELSE IF tries = <<>>
    THEN [r EXCEPT !.retval = ERROR, !.returned = TRUE]
    ELSE IF Head(tries) \notin exists
    THEN Load(r, kind, k, Tail(tries), exists, io_ok)
    ELSE IF ~io_ok THEN [r EXCEPT !.retval = ERROR, !.returned = TRUE]
    ELSE [r EXCEPT !.data[kind][k] = DataOf(Head(tries))]

\* the ozone and then the water vapor averages of month k
LoadMonth(r, k, tries, exists, io_ok) ==
    Load(Load(r, "oz", k, tries["oz"], exists, io_ok),
         "wv", k, tries["wv"], exists, io_ok)

read_monthly_avgs(aux_month, aux_year, w, exists, env_ok, io_ok) ==
    LET prev == [kind \in Kinds |-> PrevFiles(kind, aux_month, aux_year)]
        target == [kind \in Kinds |-> TargetFiles(kind, aux_month, aux_year)]
        next == [kind \in Kinds |-> NextFiles(kind, aux_month, aux_year)]
        r0 == IF env_ok THEN Monthly0
              ELSE [Monthly0 EXCEPT !.retval = ERROR, !.returned = TRUE]
        r1 == IF ReadsMonth(w.prev)
              THEN LoadMonth(r0, 0, prev, exists, io_ok) ELSE r0
        r2 == LoadMonth(r1, 1, target, exists, io_ok)
        r3 == IF ReadsMonth(w.next)
              THEN LoadMonth(r2, 2, next, exists, io_ok) ELSE r2
    IN  [r3 EXCEPT !.returned = TRUE]

(***************************************************************************)
(* SpecGapfill: main of gapfill_viirs_aux from the call of                 *)
(* determine_weights on, for a grid of NPixels pixels.  The month, the     *)
(* year, the monthly files that exist and the contents of the arrays are   *)
(* chosen when the program first looks at them.                            *)
(***************************************************************************)
\* pixels of the ozone and water vapor grids (CMG_NLINES * CMG_NSAMPS)
NPixels == 2

AuxMonths == {1, 12}

AuxYears == {2024}

\* ozone and water vapor values of the VIIRS file, and of the monthly
\* averages
OzVals == {VIIRS_FILL, 2}
WvVals == {VIIRS_FILL, 5}
OzAvgs == {VIIRS_FILL, 1, 3}
WvAvgs == {VIIRS_FILL, 2}

\* the monthly files that may exist when read_monthly_avgs is called: the
\* previous and the target month of both years, the next month of the year
\* before
MonthlyFiles(aux_month, aux_year) ==
    { MonthlyFile(kind, ym[1], ym[2]) :
        kind \in Kinds,
        ym \in { <<aux_year, prev_month(aux_month)>>,
                 <<aux_year - 1, prev_month(aux_month)>>,
                 <<aux_year, aux_month>>,
                 <<aux_year - 1, aux_month>>,
                 <<aux_year - 1, next_month(aux_month)>> } }

AtMain(pc) == aux.prog = "main" /\ aux.pc = pc

\* retval = read_monthly_avgs (...); if (retval == ERROR) exit (ERROR)
ReadMonthlyAvgs ==
    /\ WeightsDone
    /\ \E aux_month \in AuxMonths, aux_year \in AuxYears,
          env_ok \in BOOLEAN, io_ok \in BOOLEAN :
       \E exists \in SUBSET MonthlyFiles(aux_month, aux_year) :
       \E w \in {Weights(aux.prev_weight, aux.target_weight,
                         aux.next_weight)} :
       \E r \in {read_monthly_avgs(aux_month, aux_year, w, exists,
                                   env_ok, io_ok)} :
          aux' = [prog |-> "main",
                  pc |-> IF r.retval = ERROR THEN "exit" ELSE "read",
                  aux_day |-> aux.aux_day, w |-> w,
                  aux_month |-> aux_month, aux_year |-> aux_year,
                  exists |-> exists, retval |-> r.retval, data |-> r.data]
    /\ UNCHANGED retrVars

\* (variant: every pixel is a gap when either value is fill)
IsGapEither(oz, wv) == oz = VIIRS_FILL \/ wv = VIIRS_FILL

\* !(oz_2d[line][samp] != VIIRS_FILL)
IsGap(oz, wv) == oz = VIIRS_FILL

\* (variant: the previous and next averages are read whatever the weight)
FillsFromAlways(weight) == TRUE

\* if (prev_weight > 0.0), if (next_weight > 0.0) of main
FillsFrom(weight) == weight > 0

\* the gap-fill loop is entered: the grids are those read from the file
FillBegin ==
    /\ AtMain("read")
    /\ \E oz_2d \in [0 .. NPixels - 1 -> OzVals],
          wv_2d \in [0 .. NPixels - 1 -> WvVals] :
          aux' = [prog |-> "main", pc |-> "fill", aux_day |-> aux.aux_day,
                  w |-> aux.w,
                  null |-> [kind \in Kinds |->
                              [k \in 0 .. 2 |-> aux.data[kind][k].null]],
                  pix |-> 0,
                  read |-> [oz |-> oz_2d, wv |-> wv_2d],
                  oz_2d |-> oz_2d, wv_2d |-> wv_2d,
                  last |-> <<>>]
    /\ UNCHANGED retrVars

\* a pixel that is not a gap: continue
SkipPixel ==
    /\ AtMain("fill")
    /\ aux.pix < NPixels
    /\ ~IsGap(aux.oz_2d[aux.pix], aux.wv_2d[aux.pix])
    /\ aux' = [aux EXCEPT !.pix = @ + 1, !.last = <<>>]
    /\ UNCHANGED retrVars

\* the averages the loop may read for one pixel from arrays whose elements
\* are in vals
AvgsRead(vals) ==
    { [prev |-> p, target |-> t, next |-> n] :
        p \in IF FillsFrom(aux.w.prev) THEN vals ELSE {0},
        t \in vals,
        n \in IF FillsFrom(aux.w.next) THEN vals ELSE {0} }

\* the loop reads an array that is NULL
ReadsNull ==
    \E kind \in Kinds :
        \/ aux.null[kind][1]
        \/ FillsFrom(aux.w.prev) /\ aux.null[kind][0]
        \/ FillsFrom(aux.w.next) /\ aux.null[kind][2]

\* a gap pixel: both values become the weighted averages
FillPixel ==
    /\ AtMain("fill")
    /\ aux.pix < NPixels
    /\ IsGap(aux.oz_2d[aux.pix], aux.wv_2d[aux.pix])
    /\ IF ReadsNull
       THEN aux' = [aux EXCEPT !.pc = "crash"]
       ELSE \E oz \in AvgsRead(OzAvgs), wv \in AvgsRead(WvAvgs) :
            \E fo \in {get_fill_value(aux.w, oz)},
               fw \in {get_fill_value(aux.w, wv)} :
               aux' = [aux EXCEPT
                         !.oz_2d[aux.pix] = Truncated(fo.wgt_avg),
                         !.wv_2d[aux.pix] = Truncated(fw.wgt_avg),
                         !.last = [pix |-> aux.pix, oz |-> oz, wv |-> wv,
                                   fo |-> fo, fw |-> fw],
                         !.pix = @ + 1]
    /\ UNCHANGED retrVars

\* H5Dwrite of the two datasets
WriteDatasets ==
    /\ AtMain("fill")
    /\ aux.pix = NPixels
    /\ aux' = [aux EXCEPT !.pc = "done", !.last = <<>>]
    /\ UNCHANGED retrVars

NextGapfill ==
    \/ NextWeights
    \/ ReadMonthlyAvgs
    \/ FillBegin
    \/ SkipPixel
    \/ FillPixel
    \/ WriteDatasets

SpecGapfill == InitWeights /\ [][NextGapfill]_vars

(***************************************************************************)
(* SpecFillValue: get_fill_value called with the weights determine_weights *)
(* has returned and any three averages                                     *)
(***************************************************************************)
CallFillValue ==
    /\ WeightsDone
    /\ \E p, t, n \in OzAvgs :
       \E w \in {Weights(aux.prev_weight, aux.target_weight,
                         aux.next_weight)},
          avg \in {[prev |-> p, target |-> t, next |-> n]} :
       \E f \in {get_fill_value(w, avg)} :
          aux' = [prog |-> "get_fill_value", pc |-> "done",
                  aux_day |-> aux.aux_day, w |-> w, avg |-> avg,
                  applied |-> f.applied, wgt_avg |-> f.wgt_avg]
    /\ UNCHANGED retrVars

NextFillValue ==
    \/ NextWeights
    \/ CallFillValue

SpecFillValue == InitWeights /\ [][NextFillValue]_vars

Months == {"prev", "target", "next"}

\* the months whose average is not fill
NonFill(avg) == {m \in Months : avg[m] # VIIRS_FILL}

\* the weight get_fill_value applies to month m
Applied(w, m) == IF m = "target" \/ w[m] > 0 THEN w[m] ELSE 0

RECURSIVE SumOver(_, _)
SumOver(f, S) ==
    IF S = {} THEN 0
    ELSE LET m == CHOOSE x \in S : TRUE IN f[m] + SumOver(f, S \ {m})

\* get_fill_value has returned for averages of which one is not fill
FillValueDone ==
    /\ aux.prog = "get_fill_value"
    /\ NonFill(aux.avg) # {}

\* C22: for weights from determine_weights and averages of which at least
\* one is not fill, the weights applied to the non-fill averages total
\* 100 (the weight of every fill average has gone to a non-fill one), and
\* the value returned lies between the smallest and the largest non-fill
\* average
C22_FillWeightTransferred ==
    FillValueDone =>
        LET nonfill == NonFill(aux.avg)
            applied == [m \in Months |-> Applied(aux.applied, m)]
        IN  /\ Near(SumOver(applied, nonfill), Weight(100))
            /\ \E lo, hi \in nonfill :
                  /\ \A m \in nonfill :
                        aux.avg[lo] <= aux.avg[m] /\ aux.avg[m] <= aux.avg[hi]
                  /\ Near(aux.wgt_avg \div 100,
                          SumOver([m \in Months |->
                                     aux.avg[m] * (applied[m] \div 100)],
                                  nonfill))
                  /\ aux.avg[lo] * WeightUnits - WeightUnits \div 1000
                        <= aux.wgt_avg \div 100
                  /\ aux.wgt_avg \div 100
                        <= aux.avg[hi] * WeightUnits + WeightUnits \div 1000

\* the previous month's average is fill, its weight is positive and has
\* been added to the weight of the target month
C22_Witness ==
    /\ FillValueDone
    /\ aux.avg.prev = VIIRS_FILL
    /\ aux.avg.target # VIIRS_FILL /\ aux.avg.next # VIIRS_FILL
    /\ aux.w.prev > 0
    /\ aux.applied.target = RoundFloat(aux.w.target + aux.w.prev)
    /\ aux.applied.target > aux.w.target

(***************************************************************************)
(* Properties of the gap filling                                           *)
(***************************************************************************)
\* the gap-fill loop is running or has ended
InFill == aux.prog = "main" /\ aux.pc \in {"fill", "done"}

\* x is the weighted average f with its fraction dropped, a value between
\* the smallest and the largest non-fill average of avg (0 when all are
\* fill)
IsWeightedAvg(x, f, avg) ==
    /\ x = Truncated(f.wgt_avg)
    /\ IF NonFill(avg) = {} THEN x = 0
       ELSE /\ \E m \in NonFill(avg) : avg[m] <= x
            /\ \E m \in NonFill(avg) : x <= avg[m]

\* C23: gap filling changes a pixel only where the ozone value is fill: a
\* pixel whose ozone value is not VIIRS_FILL keeps the ozone and the water
\* vapor value read, and a pixel whose ozone value is VIIRS_FILL has both
\* values replaced by the weighted monthly average
C23_OnlyGapsFilled ==
    InFill =>
        /\ \A pix \in 0 .. NPixels - 1 :
              aux.read.oz[pix] # VIIRS_FILL \/ pix >= aux.pix =>
                  /\ aux.oz_2d[pix] = aux.read.oz[pix]
                  /\ aux.wv_2d[pix] = aux.read.wv[pix]
        /\ aux.pix > 0 /\ aux.read.oz[aux.pix - 1] = VIIRS_FILL
              /\ aux.pc = "fill" =>
                  /\ aux.last # <<>>
                  /\ aux.last.pix = aux.pix - 1
                  /\ IsWeightedAvg(aux.oz_2d[aux.pix - 1], aux.last.fo,
                                   aux.last.oz)
                  /\ IsWeightedAvg(aux.wv_2d[aux.pix - 1], aux.last.fw,
                                   aux.last.wv)

\* the datasets are written with a pixel that was filled although its water
\* vapor value was not fill, and a pixel left alone although its water
\* vapor value is fill
C23_Witness ==
    /\ AtMain("done")
    /\ \E pix \in 0 .. NPixels - 1 :
          /\ aux.read.oz[pix] = VIIRS_FILL
          /\ aux.read.wv[pix] # VIIRS_FILL
          /\ aux.oz_2d[pix] # VIIRS_FILL
          /\ aux.wv_2d[pix] # aux.read.wv[pix]
    /\ \E pix \in 0 .. NPixels - 1 :
          /\ aux.read.oz[pix] # VIIRS_FILL
          /\ aux.read.wv[pix] = VIIRS_FILL
          /\ aux.wv_2d[pix] = VIIRS_FILL

\* read_monthly_avgs has returned
MonthlyRead == aux.prog = "main" /\ aux.pc \in {"read", "exit"}

\* C24: the previous month is aux_month - 1 wrapping to 12 and the next
\* month aux_month + 1 wrapping to 1; the previous month's averages are read
\* from aux_year when that file exists and otherwise from aux_year - 1, the
\* target and the next month's always from aux_year - 1; ERROR is returned
\* when a needed file does not exist
C24_MonthlyFilesSelected ==
    MonthlyRead =>
        LET m == aux.aux_month
            y == aux.aux_year
            pm == IF m = 1 THEN 12 ELSE m - 1
            nm == IF m = 12 THEN 1 ELSE m + 1
            file(kind, year, month) ==
                [kind |-> kind, year |-> year, month |-> month]
            there(kind, year, month) == file(kind, year, month) \in aux.exists
            missing(kind) ==
                \/ ~there(kind, y - 1, m)
                \/ aux.w.prev > 0 /\ ~there(kind, y, pm)
                      /\ ~there(kind, y - 1, pm)
                \/ aux.w.next > 0 /\ ~there(kind, y - 1, nm)
        IN  /\ (\E kind \in Kinds : missing(kind)) => aux.retval = ERROR
            /\ aux.retval = SUCCESS =>
                  \A kind \in Kinds :
                      /\ aux.w.prev > 0 =>
                            aux.data[kind][0] =
                               [null |-> FALSE,
                                file |-> IF there(kind, y, pm)
                                         THEN file(kind, y, pm)
                                         ELSE file(kind, y - 1, pm)]
                      /\ aux.data[kind][1] =
                            [null |-> FALSE, file |-> file(kind, y - 1, m)]
                      /\ aux.w.next > 0 =>
                            aux.data[kind][2] =
                               [null |-> FALSE,
                                file |-> file(kind, y - 1, nm)]

\* in January the ozone averages of the previous month were read from
\* December of the year before and the water vapor averages from December
\* of aux_year, while the target month's file of aux_year exists
C24_Witness ==
    /\ AtMain("read")
    /\ aux.aux_month = 1
    /\ aux.w.prev > 0
    /\ aux.data["oz"][0].file.month = 12
    /\ aux.data["oz"][0].file.year = aux.aux_year - 1
    /\ aux.data["wv"][0].file.year = aux.aux_year
    /\ MonthlyFile("oz", aux.aux_year, 1) \in aux.exists

\* C25: after read_monthly_avgs has returned SUCCESS the arrays of the
\* previous month (index 0) and of the next month (index 2) are NULL
\* exactly when the weight of that month is 0 and the array of the target
\* month (index 1) is not NULL; the gap-fill loop never reads an array that
\* is NULL
C25_NoNullArrayRead ==
    /\ AtMain("read") =>
          \A kind \in Kinds :
              /\ aux.data[kind][0].null <=> aux.w.prev = 0
              /\ aux.data[kind][2].null <=> aux.w.next = 0
              /\ ~aux.data[kind][1].null
    /\ ~AtMain("crash")
    /\ AtMain("fill") => ~ReadsNull

\* a gap was filled on a day when the array of the previous month is NULL
\* and that of the next month is not
C25_Witness ==
    /\ AtMain("fill")
    /\ aux.last # <<>>
    /\ aux.null["oz"][0] /\ aux.null["wv"][0]
    /\ ~aux.null["oz"][2]
    /\ aux.last.oz.next # VIIRS_FILL

(***************************************************************************)
(* Further properties of the retriever                                     *)
(***************************************************************************)
\* C26: the (raot, residual) pair returned is one that was evaluated: raot
\* is raot_min or a table value aot550nm[j] with j >= the starting iaots,
\* the residual is the one computed at that raot, and the placeholders of
\* the bracket (raot1 = 1e-4, raot2 = 1e-6, residual1 = 2000, residual2 =
\* 1000) are never returned
C26_ReturnedWasEvaluated ==
    \A w \in Workers :
        Returned(w) =>
            LET l == loc[w]
                px == pixels[l.p]
            IN  /\ \/ l.refines = 1 /\ l.raot = l.raotmin
                   \/ \E j \in l.start .. NAOT_VALS - 1 :
                         l.raot = aot550nm[j]
                /\ <<l.p, l.raot>> \in DOMAIN kern
                /\ \/ l.residual = Rms(EvalAdvance(px, kern[<<l.p, l.raot>>]))
                   \/ l.residual = Rms(EvalRefine(px, kern[<<l.p, l.raot>>]))
                /\ l.raot \notin {Lit(1, -4), Lit(1, -6)}

\* C27: the residual evaluated by the refinement at raot_min is the same
\* function of the AOT as the residual of the advance loop, for land and
\* for water: the same bands take part, the divisor N is the same and so
\* are the point errors
C27_SameResidual ==
    \A w \in Workers :
        ReturnedRefined(w) =>
            LET l == loc[w]
                px == pixels[l.p]
                kv == kern[<<l.p, l.raot550nm>>]
                adv == EvalAdvance(px, kv)
            IN  /\ l.nbval = adv.nbval
                /\ l.nbval = Cardinality(Contributing(px))
                /\ l.testth = adv.testth
                /\ l.evaluated = Rms(adv)
                /\ l.evaluated =
                      FDiv(FSqrt(SumSquares(px, kv, start_band(px.sat), Zero)),
                           FromInt(Cardinality(Contributing(px))))

\* the refinement has evaluated a residual that is not zero over two bands
\* of a water pixel, the driver band among them
C27_Witness ==
    \E w \in Workers :
        /\ ReturnedRefined(w)
        /\ pixels[loc[w].p].water
        /\ loc[w].nbval = 2
        /\ pixels[loc[w].p].iband1 \in Contributing(pixels[loc[w].p])
        /\ FLt(Zero, loc[w].evaluated)

=============================================================================
